---- MODULE Spec2Model ----
(***************************************************************************)
(* FlashyCardy: the ownership-scoped services (DeckService, CardService),  *)
(* the server actions that call them, and the study session of            *)
(* StudyInterface.                                                         *)
(*                                                                         *)
(* A string is modelled by its length (the schemas only look at lengths);  *)
(* an optional value is a sequence of length 0 (undefined / null) or 1.    *)
(* Every database statement is one atomic step (the neon-http driver sends *)
(* each statement as its own request), so two requests interleave between  *)
(* the statements of a service method.                                     *)
(***************************************************************************)
EXTENDS Integers, Sequences, FiniteSets, TLC

\* ------------------------------------------------------------------ bounds
MaxDecks == 2
MaxCards == 2
MaxReqs == 2
MaxStudyCards == 3

Users == {"u1", "u2"}
NoUser == "null"
Procs == {"r1", "r2"}

None == <<>>
Some(x) == <<x>>
IsSome(o) == Len(o) = 1
Val(o) == o[1]

\* ------------------------------------------------------------------ state
VARIABLES
    decksTable,   \* rows of the decks table
    cardsTable,   \* rows of the cards table
    deckSeq,      \* last id the decks serial handed out
    cardSeq,      \* last id the cards serial handed out
    clock,        \* the time of the last write (new Date())
    req,          \* the requests in flight, one per slot
    issued,       \* requests issued so far
    everDecks,    \* history: <<id, userId>> of every deck ever inserted
    studyCards,   \* StudyInterface's cards prop: the ids of the cards handed to it
    study,        \* StudyInterface's React state
    lastEvent,    \* history: the last click in the study view
    studyBefore,  \* history: the React state before that click
    canon         \* history: how far the clicks follow flip, next, flip, next, ...

storeVars == <<decksTable, cardsTable, deckSeq, cardSeq, clock, req, issued, everDecks>>
studyVars == <<studyCards, study, lastEvent, studyBefore, canon>>
vars == <<storeVars, studyVars>>

\* ------------------------------------------------------------------ inputs
NoInput == [id |-> None, deckId |-> None, name |-> None, description |-> None,
            front |-> None, back |-> None, userId |-> None]

Handlers == {"createDeck", "updateDeck", "deleteDeck",
             "createCard", "updateCard", "deleteCard"}
Pages == {"dashboardPage", "deckPage", "studyPage"}

\* a number that is not an integer, 1.5: whole part and fraction. It is no Some(i),
\* so z.number().int() refuses it, and its first component is what truncation gives
NonInteger == <<1, 5>>

DeckIdIn == {Some(i) : i \in -1..MaxDecks}
CardIdIn == {Some(i) : i \in -1..MaxCards}

\* what a client may send: every shape the schemas tell apart
Inputs(h) ==
    CASE h = "createDeck" ->
           {[NoInput EXCEPT !.name = n, !.description = d] :
               n \in {None, Some(0), Some(1), Some(255), Some(256)},
               d \in {None, Some(1000), Some(1001)}}
           \cup {[NoInput EXCEPT !.name = Some(1), !.userId = Some(u)] : u \in Users}
      [] h = "updateDeck" ->
           {[NoInput EXCEPT !.id = i, !.name = n, !.description = d] :
               i \in DeckIdIn, n \in {None, Some(0), Some(255), Some(256)},
               d \in {None, Some(1001)}}
           \cup {[NoInput EXCEPT !.id = Some(1), !.name = Some(255), !.userId = Some(u)] :
                    u \in Users}
           \cup {[NoInput EXCEPT !.id = NonInteger, !.name = Some(255)]}
      [] h = "deleteDeck" ->
           {[NoInput EXCEPT !.id = i] : i \in DeckIdIn \cup {NonInteger}}
      [] h = "createCard" ->
           {[NoInput EXCEPT !.deckId = i, !.front = f, !.back = b] :
               i \in DeckIdIn, f \in {Some(0), Some(1), Some(2000), Some(2001)},
               b \in {Some(1), Some(2001)}}
           \cup {[NoInput EXCEPT !.deckId = NonInteger, !.front = Some(1),
                                 !.back = Some(1)]}
      [] h = "updateCard" ->
           {[NoInput EXCEPT !.id = i, !.front = f, !.back = b] :
               i \in CardIdIn, f \in {None, Some(0), Some(2000)}, b \in {None, Some(1)}}
           \cup {[NoInput EXCEPT !.id = Some(1), !.front = Some(2000),
                                 !.deckId = Some(MaxDecks)]}
           \cup {[NoInput EXCEPT !.id = NonInteger, !.front = Some(2000)]}
      [] h = "deleteCard" ->
           {[NoInput EXCEPT !.id = i] : i \in CardIdIn \cup {NonInteger}}
      [] h = "dashboardPage" -> {NoInput}
      [] h \in {"deckPage", "studyPage"} ->
           {[NoInput EXCEPT !.deckId = i] : i \in DeckIdIn \cup {None}}

\* the inputs of the concurrent runs: one valid payload per target id
ValidInputs(h) ==
    CASE h = "createDeck" -> {[NoInput EXCEPT !.name = Some(1)]}
      [] h = "updateDeck" ->
           {[NoInput EXCEPT !.id = Some(i), !.name = Some(255)] : i \in 1..MaxDecks}
      [] h = "deleteDeck" -> {[NoInput EXCEPT !.id = Some(i)] : i \in 1..MaxDecks}
      [] h = "createCard" ->
           {[NoInput EXCEPT !.deckId = Some(i), !.front = Some(1), !.back = Some(1)] :
               i \in 1..MaxDecks}
      [] h = "updateCard" ->
           {[NoInput EXCEPT !.id = Some(i), !.front = Some(2000)] : i \in 1..MaxCards}
      [] h = "deleteCard" -> {[NoInput EXCEPT !.id = Some(i)] : i \in 1..MaxCards}
      [] h = "dashboardPage" -> {NoInput}
      [] h \in {"deckPage", "studyPage"} ->
           {[NoInput EXCEPT !.deckId = Some(i)] : i \in 1..MaxDecks}

\* ------------------------------------------------------------------ schemas
PositiveInt_truncates(o) == o # None /\ Val(o) > 0

\* z.number().int().positive()
PositiveInt(o) == IsSome(o) /\ Val(o) > 0
StringMinMax(o, lo, hi) == IsSome(o) /\ Val(o) >= lo /\ Val(o) <= hi
OptionalStringMinMax(o, lo, hi) == o = None \/ StringMinMax(o, lo, hi)

createDeckSchema(in) == StringMinMax(in.name, 1, 255)
updateDeckSchema(in) == PositiveInt(in.id) /\ OptionalStringMinMax(in.name, 1, 255)
deleteDeckSchema(in) == PositiveInt(in.id)
createCardSchema(in) ==
    /\ PositiveInt(in.deckId)
    /\ StringMinMax(in.front, 1, 2000)
    /\ StringMinMax(in.back, 1, 2000)
updateCardSchema(in) ==
    /\ PositiveInt(in.id)
    /\ OptionalStringMinMax(in.front, 1, 2000)
    /\ OptionalStringMinMax(in.back, 1, 2000)
deleteCardSchema(in) == PositiveInt(in.id)

\* the pages' deckId = parseInt(deckIdParam); None is NaN
pageParamInvalid(in) == in.deckId = None \/ Val(in.deckId) <= 0

Schema(h, in) ==
    CASE h = "createDeck" -> createDeckSchema(in)
      [] h = "updateDeck" -> updateDeckSchema(in)
      [] h = "deleteDeck" -> deleteDeckSchema(in)
      [] h = "createCard" -> createCardSchema(in)
      [] h = "updateCard" -> updateCardSchema(in)
      [] h = "deleteCard" -> deleteCardSchema(in)

\* ------------------------------------------------------------------ responses
NoData == [kind |-> "none"]
NoResp == [success |-> FALSE, error |-> "", fieldErrors |-> {}, data |-> NoData]
Ok(data) == [success |-> TRUE, error |-> "", fieldErrors |-> {}, data |-> data]
Fail(msg) == [success |-> FALSE, error |-> msg, fieldErrors |-> {}, data |-> NoData]

\* what a page render ends in
Redirect(path) == [kind |-> "redirect", to |-> path]
NotFound == [kind |-> "notFound"]
Render(deck, cards) == [kind |-> "render", deck |-> deck, cards |-> cards]
RenderDecks(decks) == [kind |-> "render", decks |-> decks]
RenderError == [kind |-> "error"]
SignInPath == <<"/sign-in">>

InvalidInput == "Invalid input data"
DeckDenied == "Deck not found or access denied"
CardDenied == "Card not found or access denied"

\* the message of each action's last catch clause
GenericError(h) ==
    CASE h = "createDeck" -> "Failed to create deck"
      [] h = "updateDeck" -> "Failed to update deck"
      [] h = "deleteDeck" -> "Failed to delete deck"
      [] h = "createCard" -> "Failed to create card"
      [] h = "updateCard" -> "Failed to update card"
      [] h = "deleteCard" -> "Failed to delete card"

\* the first database statement of each action
FirstPc(h) ==
    CASE h = "createDeck" -> "insertDeck"
      [] h = "updateDeck" -> "updateDeck"
      [] h = "deleteDeck" -> "deleteDeck"
      [] h = "createCard" -> "cc_check"
      [] h = "updateCard" -> "uc_check"
      [] h = "deleteCard" -> "dc_getCard"
      [] h = "dashboardPage" -> "pg_decks"
      [] h \in {"deckPage", "studyPage"} -> "pg_fetch"

\* the statements that open a service method
OpensCall == {"insertDeck", "updateDeck", "deleteDeck", "cc_check", "uc_check",
              "uc_getCard", "dc_getCard", "dc_check"}
Statements == OpensCall \cup {"cc_insert", "uc_update", "dc_delete"}
PageStatements == {"pg_decks", "pg_fetch"}

DashboardPath == <<"/dashboard">>
DeckPath(deckId) == <<"/decks", deckId>>

IdleReq == [handler |-> "none", user |-> NoUser, input |-> NoInput, pc |-> "idle",
            resp |-> NoResp, calls |-> 0, writes |-> 0, revalidated |-> {},
            cardWithDeck |-> None, storeError |-> FALSE,
            pending |-> {}, deck |-> None, cards |-> <<>>]

\* ------------------------------------------------------------------ study state
\* useState(0), useState(false), useState(new Set()), useState(false)
InitialStudy == [currentCardIndex |-> 0, isFlipped |-> FALSE, studiedCards |-> {},
                 isStudyComplete |-> FALSE]

\* ------------------------------------------------------------------ initial stores
\* The database outlives the server: it starts empty or holding n decks, deck i
\* owned by u1 (i odd) or u2 (i even), with card i in deck i.
Owner(i) == IF i % 2 = 1 THEN "u1" ELSE "u2"
Min(a, b) == IF a < b THEN a ELSE b
SeedDecks(n) ==
    {[id |-> i, userId |-> Owner(i), name |-> 1, description |-> None, updatedAt |-> i] :
        i \in 1..n}
SeedCards(n) ==
    {[id |-> i, deckId |-> i, front |-> 1, back |-> 1, createdAt |-> n + i,
      updatedAt |-> n + i] : i \in 1..n}

Init ==
    \E n \in 0..Min(MaxDecks, MaxCards) :
        /\ decksTable = SeedDecks(n)
        /\ cardsTable = SeedCards(n)
        /\ deckSeq = n
        /\ cardSeq = n
        /\ clock = 2 * n
        /\ req = [p \in Procs |-> IdleReq]
        /\ issued = 0
        /\ everDecks = {<<i, Owner(i)>> : i \in 1..n}
        /\ studyCards = <<>>
        /\ study = InitialStudy
        /\ lastEvent = "none"
        /\ studyBefore = InitialStudy
        /\ canon = Some(0)

\* ------------------------------------------------------------------ services
\* DeckService.getUserDeck: select ... where id = deckId and userId = userId
getUserDeckWhere(d, userId, deckId) == d.id = deckId /\ d.userId = userId
getUserDeck(userId, deckId) ==
    LET rows == {d \in decksTable : getUserDeckWhere(d, userId, deckId)}
    IN  IF rows = {} THEN None ELSE Some(CHOOSE d \in rows : TRUE)

updateDeckWhere_anyOwner(d, userId, deckId) == d.id = deckId

\* the where clause of DeckService.updateDeck
updateDeckWhere(d, userId, deckId) == d.id = deckId /\ d.userId = userId

deleteDeckWhere_anyOwner(d, userId, deckId) == d.id = deckId
deleteDeckWhere_anyId(d, userId, deckId) == d.userId = userId

\* the where clause of DeckService.deleteDeck
deleteDeckWhere(d, userId, deckId) == d.id = deckId /\ d.userId = userId

\* one column after set({...data}): the value data carries for it, else the old one
\* (description is the only nullable column, kept as an optional value)
SetColumn(row, data, f) ==
    IF f \in DOMAIN data
    THEN IF f = "description" THEN data[f] ELSE Val(data[f])
    ELSE row[f]

\* set({...data, updatedAt: new Date()}) on a deck row
setDeck(d, data, now) ==
    [id |-> SetColumn(d, data, "id"), userId |-> SetColumn(d, data, "userId"),
     name |-> SetColumn(d, data, "name"),
     description |-> SetColumn(d, data, "description"), updatedAt |-> now]

\* set({...data, updatedAt: new Date()}) on a card row
setCard(c, data, now) ==
    [id |-> SetColumn(c, data, "id"), deckId |-> SetColumn(c, data, "deckId"),
     front |-> SetColumn(c, data, "front"), back |-> SetColumn(c, data, "back"),
     createdAt |-> SetColumn(c, data, "createdAt"), updatedAt |-> now]

\* the foreign key cards.deckId -> decks.id: deleting a deck deletes its cards,
\* and a card is inserted only into a deck that exists
onDeleteCascade(cards, deleted) == {c \in cards : c.deckId \notin {d.id : d \in deleted}}
foreignKeyHolds_unchecked(deckId) == TRUE
foreignKeyHolds(deckId) == \E d \in decksTable : d.id = deckId

\* the select of CardService.getDeckCards and createCard: the caller's deck with this id
ownedDeckWhere(d, userId, deckId) == d.id = deckId /\ d.userId = userId

\* the orderings the services ask for: a comes no later than b
updatedAtDesc_oldestFirst(a, b) == a.updatedAt <= b.updatedAt

updatedAtDesc(a, b) == a.updatedAt >= b.updatedAt
createdAtDesc(a, b) == a.createdAt >= b.createdAt
createdAtAsc(a, b) == a.createdAt <= b.createdAt
Before(order, a, b) ==
    CASE order = "updatedAtDesc" -> updatedAtDesc(a, b)
      [] order = "createdAtDesc" -> createdAtDesc(a, b)
      [] order = "createdAtAsc" -> createdAtAsc(a, b)

\* the rows of S as the sequence ORDER BY gives
OrderBy(S, order) ==
    CHOOSE s \in [1..Cardinality(S) -> S] :
        /\ \A i, j \in 1..Cardinality(S) : i # j => s[i] # s[j]
        /\ \A i, j \in 1..Cardinality(S) : i < j => Before(order, s[i], s[j])

\* DeckService.getUserDecks: orderBy(desc(decksTable.updatedAt))
getUserDecks(userId) == OrderBy({d \in decksTable : d.userId = userId}, "updatedAtDesc")

\* CardService.getDeckCards: [] unless the caller owns the deck, else the deck's
\* cards, orderBy(desc(cardsTable.createdAt))
selectDeckCards(deckId) == OrderBy({c \in cardsTable : c.deckId = deckId}, "createdAtDesc")

\* CardService.getDeckCards on one snapshot of the store
getDeckCards(userId, deckId) ==
    IF {d \in decksTable : ownedDeckWhere(d, userId, deckId)} = {}
    THEN <<>>
    ELSE selectDeckCards(deckId)

\* DeckService.getDeckCards on one snapshot of the store: throws (None) unless the
\* caller owns the deck, else the deck's cards, orderBy(cardsTable.createdAt)
\* if (!deck) throw new Error('Deck not found or access denied')
deckServiceGetDeckCardsThrows(userId, deckId) == getUserDeck(userId, deckId) = None

deckServiceGetDeckCards(userId, deckId) ==
    IF deckServiceGetDeckCardsThrows(userId, deckId)
    THEN None
    ELSE Some(OrderBy({c \in cardsTable : c.deckId = deckId}, "createdAtAsc"))

\* cards inner join decks on cards.deckId = decks.id
Joined == {<<c, d>> \in cardsTable \X decksTable : c.deckId = d.id}

getCardWhere_anyOwner(c, d, userId, cardId) == c.id = cardId

\* CardService.getCard: the joined row with this card id whose deck is the caller's
getCardWhere(c, d, userId, cardId) == c.id = cardId /\ d.userId = userId
getCard(userId, cardId) ==
    LET rows == {j \in Joined : getCardWhere(j[1], j[2], userId, cardId)}
    IN  IF rows = {} THEN None
        ELSE LET j == CHOOSE j \in rows : TRUE
             IN  Some([id |-> j[1].id, deckId |-> j[1].deckId, front |-> j[1].front,
                       back |-> j[1].back, createdAt |-> j[1].createdAt,
                       updatedAt |-> j[1].updatedAt, userId |-> j[2].userId])

\* the ownership test of CardService.updateCard and deleteCard:
\* !cardWithDeck.length || cardWithDeck[0].userId !== userId
cardOwnershipFails(userId, cardId) ==
    LET rows == {j \in Joined : j[1].id = cardId}
    IN  rows = {} \/ (CHOOSE j \in rows : TRUE)[2].userId # userId

\* ------------------------------------------------------------------ actions
InFlight(pc) == Cardinality({q \in Procs : req[q].pc = pc})

Unauthorized_never(userId) == FALSE

\* if (!userId): auth() resolved no user
Unauthorized(userId) == userId = NoUser

\* a server action up to its first database statement: auth(), then schema.parse(input)
ActionArrives(r) ==
    IF Unauthorized(r.user)
    THEN [r EXCEPT !.pc = "done", !.resp = Fail(GenericError(r.handler))]
    ELSE IF ~Schema(r.handler, r.input)
    THEN [r EXCEPT !.pc = "done", !.resp = Fail(InvalidInput)]
    ELSE [r EXCEPT !.pc = FirstPc(r.handler)]

PageArrives_noAuthTest(r) ==
    IF r.handler = "dashboardPage"
    THEN [r EXCEPT !.pc = "pg_decks"]
    ELSE IF pageParamInvalid(r.input)
    THEN [r EXCEPT !.pc = "done", !.resp = NotFound]
    ELSE [r EXCEPT !.pc = "pg_fetch", !.pending = {"getUserDeck", "getDeckCards"}]

\* a page up to its first database statement: auth(), then parseInt(deckIdParam);
\* Promise.all starts getUserDeck and getDeckCards together
PageArrives(r) ==
    IF Unauthorized(r.user)
    THEN [r EXCEPT !.pc = "done", !.resp = Redirect(SignInPath)]
    ELSE IF r.handler = "dashboardPage"
    THEN [r EXCEPT !.pc = "pg_decks"]
    ELSE IF pageParamInvalid(r.input)
    THEN [r EXCEPT !.pc = "done", !.resp = NotFound]
    ELSE [r EXCEPT !.pc = "pg_fetch", !.pending = {"getUserDeck", "getDeckCards"}]

\* A request arrives from a caller in U, with any input (anyInput) or a valid one
Issue(p, U, anyInput) ==
    /\ req[p].pc \in {"idle", "done"}
    /\ issued < MaxReqs
    /\ issued' = issued + 1
    /\ \E h \in Handlers \cup Pages, u \in U :
         /\ h = "createDeck" => deckSeq + InFlight("insertDeck") < MaxDecks
         /\ h = "createCard" =>
               cardSeq + InFlight("cc_check") + InFlight("cc_insert") < MaxCards
         /\ \E in \in (IF anyInput THEN Inputs(h) ELSE ValidInputs(h)) :
              LET r == [IdleReq EXCEPT !.handler = h, !.user = u, !.input = in]
              IN  req' = [req EXCEPT ![p] =
                     IF h \in Pages THEN PageArrives(r) ELSE ActionArrives(r)]
    /\ UNCHANGED <<decksTable, cardsTable, deckSeq, cardSeq, clock, everDecks, studyVars>>

\* the message of the error a failing statement throws
StorageErrorText == "error.message of the driver"

StoreError_forwardsText(p) ==
    /\ req[p].pc \in Statements
    /\ req' = [req EXCEPT ![p] =
           [@ EXCEPT !.pc = "done", !.resp = Fail(StorageErrorText),
                     !.calls = IF req[p].pc \in OpensCall THEN @ + 1 ELSE @,
                     !.storeError = TRUE]]
    /\ UNCHANGED <<decksTable, cardsTable, deckSeq, cardSeq, clock, issued, everDecks, studyVars>>

\* A database statement fails: the driver throws, the action's catch answers
StoreError(p) ==
    /\ req[p].pc \in Statements
    /\ req' = [req EXCEPT ![p] =
           [@ EXCEPT !.pc = "done", !.resp = Fail(GenericError(req[p].handler)),
                     !.calls = IF req[p].pc \in OpensCall THEN @ + 1 ELSE @,
                     !.storeError = TRUE]]
    /\ UNCHANGED <<decksTable, cardsTable, deckSeq, cardSeq, clock, issued, everDecks, studyVars>>

\* the object a client sent: the fields that are present
Sent(in) == [f \in {g \in DOMAIN in : in[g] # None} |-> in[f]]

\* createDeckSchema.parse: a z.object keeps its own keys and strips every other
createDeckParse(obj) == [f \in DOMAIN obj \cap {"name", "description"} |-> obj[f]]

\* { ...a, ...b }: a key in both takes b's value
Spread(a, b) ==
    [f \in DOMAIN a \cup DOMAIN b |-> IF f \in DOMAIN b THEN b[f] ELSE a[f]]

createDeckValues_dataLast(userId, data, now) ==
    Spread([userId |-> Some(userId), updatedAt |-> Some(now)], data)

\* DeckService.createDeck: values({ ...data, userId, updatedAt: new Date() })
createDeckValues(userId, data, now) ==
    Spread(data, [userId |-> Some(userId), updatedAt |-> Some(now)])

\* the row the insert returns
createDeck(userId, data, id, now) ==
    LET values == createDeckValues(userId, data, now)
    IN  [id |-> id, userId |-> Val(values.userId), name |-> Val(values.name),
         description |-> IF "description" \in DOMAIN values
                         THEN values.description ELSE None,
         updatedAt |-> Val(values.updatedAt)]

\* createDeckAction: deckService.createDeck, revalidatePath, return
createDeckAction(p) ==
    /\ req[p].pc = "insertDeck"
    /\ LET r == req[p]
           validatedData == createDeckParse(Sent(r.input))
           row == createDeck(r.user, validatedData, deckSeq + 1, clock + 1)
       IN  /\ decksTable' = decksTable \cup {row}
           /\ everDecks' = everDecks \cup {<<row.id, row.userId>>}
           /\ req' = [req EXCEPT ![p] =
                  [r EXCEPT !.pc = "done", !.resp = Ok(row), !.calls = @ + 1,
                            !.writes = @ + 1, !.revalidated = {DashboardPath}]]
    /\ deckSeq' = deckSeq + 1
    /\ clock' = clock + 1
    /\ UNCHANGED <<cardsTable, cardSeq, issued, studyVars>>

updateDeckParse_passthrough(obj) == obj

\* updateDeckSchema.parse keeps the keys of the schema and strips every other key
updateDeckParse(obj) == [f \in DOMAIN obj \cap {"id", "name", "description"} |-> obj[f]]

\* updateCardSchema.parse keeps the keys of the schema and strips every other key
updateCardParse(obj) == [f \in DOMAIN obj \cap {"id", "front", "back"} |-> obj[f]]

\* const { id, ...updateData } = validatedData
updateData(validatedData) == [f \in DOMAIN validatedData \ {"id"} |-> validatedData[f]]

\* updateDeckAction: deckService.updateDeck in one UPDATE ... WHERE id AND userId
updateDeckAction(p) ==
    /\ req[p].pc = "updateDeck"
    /\ LET r == req[p]
           validatedData == updateDeckParse(Sent(r.input))
           hit == {d \in decksTable : updateDeckWhere(d, r.user, Val(validatedData.id))}
           new == {setDeck(d, updateData(validatedData), clock + 1) : d \in hit}
       IN  /\ decksTable' = (decksTable \ hit) \cup new
           /\ clock' = IF hit = {} THEN clock ELSE clock + 1
           /\ req' = [req EXCEPT ![p] =
                  IF new = {}
                  THEN [r EXCEPT !.pc = "done", !.resp = Fail(DeckDenied), !.calls = @ + 1]
                  ELSE [r EXCEPT !.pc = "done", !.resp = Ok(CHOOSE d \in new : TRUE),
                                 !.calls = @ + 1, !.writes = @ + Cardinality(hit),
                                 !.revalidated = {DashboardPath}]]
    /\ UNCHANGED <<cardsTable, deckSeq, cardSeq, issued, everDecks, studyVars>>

\* deleteDeckAction: deckService.deleteDeck in one DELETE ... WHERE id AND userId
deleteDeckAction(p) ==
    /\ req[p].pc = "deleteDeck"
    /\ LET r == req[p]
           hit == {d \in decksTable : deleteDeckWhere(d, r.user, Val(r.input.id))}
       IN  /\ decksTable' = decksTable \ hit
           /\ cardsTable' = onDeleteCascade(cardsTable, hit)
           /\ req' = [req EXCEPT ![p] =
                  IF hit = {}
                  THEN [r EXCEPT !.pc = "done", !.resp = Fail(DeckDenied), !.calls = @ + 1]
                  ELSE [r EXCEPT !.pc = "done", !.resp = Ok(NoData), !.calls = @ + 1,
                                 !.writes = @ + Cardinality(hit)
                                     + Cardinality(cardsTable \ onDeleteCascade(cardsTable, hit)),
                                 !.revalidated = {DashboardPath}]]
    /\ UNCHANGED <<deckSeq, cardSeq, clock, issued, everDecks, studyVars>>

\* createCardAction, first statement of cardService.createCard: select the caller's deck
createCard_check(p) ==
    /\ req[p].pc = "cc_check"
    /\ LET r == req[p]
           deck == {d \in decksTable : ownedDeckWhere(d, r.user, Val(r.input.deckId))}
       IN  req' = [req EXCEPT ![p] =
              IF deck = {}
              THEN [r EXCEPT !.pc = "done", !.resp = Fail(GenericError(r.handler)),
                             !.calls = @ + 1]
              ELSE [r EXCEPT !.pc = "cc_insert", !.calls = @ + 1]]
    /\ UNCHANGED <<decksTable, cardsTable, deckSeq, cardSeq, clock, issued, everDecks, studyVars>>

\* createCardAction, second statement: insert the card, revalidate, return
createCard_insert(p) ==
    /\ req[p].pc = "cc_insert"
    /\ LET r == req[p]
           deckId == Val(r.input.deckId)
           row == [id |-> cardSeq + 1, deckId |-> deckId, front |-> Val(r.input.front),
                   back |-> Val(r.input.back), createdAt |-> clock + 1,
                   updatedAt |-> clock + 1]
       IN  IF foreignKeyHolds(deckId)
           THEN /\ cardsTable' = cardsTable \cup {row}
                /\ cardSeq' = cardSeq + 1
                /\ clock' = clock + 1
                /\ req' = [req EXCEPT ![p] =
                       [r EXCEPT !.pc = "done", !.resp = Ok(row), !.writes = @ + 1,
                                 !.revalidated = {DashboardPath, DeckPath(deckId)}]]
           ELSE /\ req' = [req EXCEPT ![p] =
                       [r EXCEPT !.pc = "done", !.resp = Fail(GenericError(r.handler)),
                                 !.storeError = TRUE]]
                /\ UNCHANGED <<cardsTable, cardSeq, clock>>
    /\ UNCHANGED <<decksTable, deckSeq, issued, everDecks, studyVars>>

\* updateCardAction, first statement of cardService.updateCard: the ownership select
updateCard_check(p) ==
    /\ req[p].pc = "uc_check"
    /\ LET r == req[p]
       IN  req' = [req EXCEPT ![p] =
              IF cardOwnershipFails(r.user, Val(r.input.id))
              THEN [r EXCEPT !.pc = "done", !.resp = Fail(GenericError(r.handler)),
                             !.calls = @ + 1]
              ELSE [r EXCEPT !.pc = "uc_update", !.calls = @ + 1]]
    /\ UNCHANGED <<decksTable, cardsTable, deckSeq, cardSeq, clock, issued, everDecks, studyVars>>

\* updateCardAction, second statement: UPDATE cards ... WHERE id = cardId
updateCard_update(p) ==
    /\ req[p].pc = "uc_update"
    /\ LET r == req[p]
           validatedData == updateCardParse(Sent(r.input))
           hit == {c \in cardsTable : c.id = Val(validatedData.id)}
           new == {setCard(c, updateData(validatedData), clock + 1) : c \in hit}
       IN  /\ cardsTable' = (cardsTable \ hit) \cup new
           /\ clock' = IF hit = {} THEN clock ELSE clock + 1
           /\ req' = [req EXCEPT ![p] =
                  IF new = {}
                  THEN [r EXCEPT !.pc = "done", !.resp = Fail(CardDenied)]
                  ELSE [r EXCEPT !.pc = "uc_getCard", !.resp = Ok(CHOOSE c \in new : TRUE),
                                 !.writes = @ + Cardinality(hit)]]
    /\ UNCHANGED <<decksTable, deckSeq, cardSeq, issued, everDecks, studyVars>>

updateCard_getCard_skipped(p) ==
    /\ req[p].pc = "uc_getCard"
    /\ req' = [req EXCEPT ![p] = [@ EXCEPT !.pc = "done"]]
    /\ UNCHANGED <<decksTable, cardsTable, deckSeq, cardSeq, clock, issued, everDecks, studyVars>>

\* updateCardAction, third statement: cardService.getCard to find the path to revalidate
updateCard_getCard(p) ==
    /\ req[p].pc = "uc_getCard"
    /\ LET r == req[p]
           cardWithDeck == getCard(r.user, Val(r.input.id))
       IN  req' = [req EXCEPT ![p] =
              [r EXCEPT !.pc = "done", !.calls = @ + 1,
                        !.cardWithDeck = cardWithDeck,
                        !.revalidated = IF IsSome(cardWithDeck)
                                        THEN {DashboardPath, DeckPath(Val(cardWithDeck).deckId)}
                                        ELSE {}]]
    /\ UNCHANGED <<decksTable, cardsTable, deckSeq, cardSeq, clock, issued, everDecks, studyVars>>

\* deleteCardAction, first statement: cardService.getCard
deleteCard_getCard(p) ==
    /\ req[p].pc = "dc_getCard"
    /\ LET r == req[p]
           cardWithDeck == getCard(r.user, Val(r.input.id))
       IN  req' = [req EXCEPT ![p] =
              IF cardWithDeck = None
              THEN [r EXCEPT !.pc = "done", !.resp = Fail(CardDenied), !.calls = @ + 1]
              ELSE [r EXCEPT !.pc = "dc_check", !.calls = @ + 1,
                             !.cardWithDeck = cardWithDeck]]
    /\ UNCHANGED <<decksTable, cardsTable, deckSeq, cardSeq, clock, issued, everDecks, studyVars>>

\* deleteCardAction, second statement: the ownership select of cardService.deleteCard
deleteCard_check(p) ==
    /\ req[p].pc = "dc_check"
    /\ LET r == req[p]
       IN  req' = [req EXCEPT ![p] =
              IF cardOwnershipFails(r.user, Val(r.input.id))
              THEN [r EXCEPT !.pc = "done", !.resp = Fail(GenericError(r.handler)),
                             !.calls = @ + 1]
              ELSE [r EXCEPT !.pc = "dc_delete", !.calls = @ + 1]]
    /\ UNCHANGED <<decksTable, cardsTable, deckSeq, cardSeq, clock, issued, everDecks, studyVars>>

deleteCard_delete_ignoresResult(p) ==
    /\ req[p].pc = "dc_delete"
    /\ LET r == req[p]
           hit == {c \in cardsTable : c.id = Val(r.input.id)}
       IN  /\ cardsTable' = cardsTable \ hit
           /\ req' = [req EXCEPT ![p] =
                  [r EXCEPT !.pc = "done", !.resp = Ok(NoData),
                            !.writes = @ + Cardinality(hit),
                            !.revalidated =
                                {DashboardPath, DeckPath(Val(r.cardWithDeck).deckId)}]]
    /\ UNCHANGED <<decksTable, deckSeq, cardSeq, clock, issued, everDecks, studyVars>>

\* deleteCardAction, third statement: DELETE FROM cards WHERE id = cardId
deleteCard_delete(p) ==
    /\ req[p].pc = "dc_delete"
    /\ LET r == req[p]
           hit == {c \in cardsTable : c.id = Val(r.input.id)}
       IN  /\ cardsTable' = cardsTable \ hit
           /\ req' = [req EXCEPT ![p] =
                  IF hit = {}
                  THEN [r EXCEPT !.pc = "done", !.resp = Fail(CardDenied)]
                  ELSE [r EXCEPT !.pc = "done", !.resp = Ok(NoData),
                                 !.writes = @ + Cardinality(hit),
                                 !.revalidated =
                                     {DashboardPath, DeckPath(Val(r.cardWithDeck).deckId)}]]
    /\ UNCHANGED <<decksTable, deckSeq, cardSeq, clock, issued, everDecks, studyVars>>

\* a page's try block once both promises are settled: notFound() without a deck;
\* the study page's redirect() on an empty list throws inside the try, and its
\* catch answers every throw with notFound()
pageOutcome(handler, deckId, deck, cards) ==
    IF deck = None THEN NotFound
    ELSE IF handler = "studyPage" /\ cards = <<>> THEN NotFound
    ELSE Render(Val(deck), cards)

Settle(r) ==
    IF r.pending = {}
    THEN [r EXCEPT !.pc = "done", !.deck = None, !.cards = <<>>,
                   !.resp = pageOutcome(r.handler, Val(r.input.deckId), r.deck, r.cards)]
    ELSE r

\* DashboardPage: deckService.getUserDecks, render
dashboardPage(p) ==
    /\ req[p].pc = "pg_decks"
    /\ req' = [req EXCEPT ![p] =
           [@ EXCEPT !.pc = "done", !.calls = @ + 1,
                     !.resp = RenderDecks(getUserDecks(req[p].user))]]
    /\ UNCHANGED <<decksTable, cardsTable, deckSeq, cardSeq, clock, issued, everDecks, studyVars>>

\* DeckPage and StudyPage: deckService.getUserDeck's select
page_getUserDeck(p) ==
    /\ req[p].pc = "pg_fetch"
    /\ "getUserDeck" \in req[p].pending
    /\ LET r == req[p]
       IN  req' = [req EXCEPT ![p] =
              Settle([r EXCEPT !.pending = @ \ {"getUserDeck"}, !.calls = @ + 1,
                               !.deck = getUserDeck(r.user, Val(r.input.deckId))])]
    /\ UNCHANGED <<decksTable, cardsTable, deckSeq, cardSeq, clock, issued, everDecks, studyVars>>

\* DeckPage and StudyPage: cardService.getDeckCards' first select, the caller's deck
page_getDeckCards(p) ==
    /\ req[p].pc = "pg_fetch"
    /\ "getDeckCards" \in req[p].pending
    /\ LET r == req[p]
           deck == {d \in decksTable : ownedDeckWhere(d, r.user, Val(r.input.deckId))}
       IN  req' = [req EXCEPT ![p] =
              IF deck = {}
              THEN Settle([r EXCEPT !.pending = @ \ {"getDeckCards"}, !.calls = @ + 1,
                                    !.cards = <<>>])
              ELSE [r EXCEPT !.pending = (@ \ {"getDeckCards"}) \cup {"selectCards"},
                             !.calls = @ + 1]]
    /\ UNCHANGED <<decksTable, cardsTable, deckSeq, cardSeq, clock, issued, everDecks, studyVars>>

\* DeckPage and StudyPage: cardService.getDeckCards' second select, the deck's cards
page_selectCards(p) ==
    /\ req[p].pc = "pg_fetch"
    /\ "selectCards" \in req[p].pending
    /\ LET r == req[p]
       IN  req' = [req EXCEPT ![p] =
              Settle([r EXCEPT !.pending = @ \ {"selectCards"},
                               !.cards = selectDeckCards(Val(r.input.deckId))])]
    /\ UNCHANGED <<decksTable, cardsTable, deckSeq, cardSeq, clock, issued, everDecks, studyVars>>

\* A statement of a page fails: DeckPage and StudyPage catch and call notFound();
\* DashboardPage has no try and the error reaches the error boundary
PageStoreError(p) ==
    /\ req[p].pc \in PageStatements
    /\ req' = [req EXCEPT ![p] =
           [@ EXCEPT !.pc = "done", !.storeError = TRUE, !.pending = {}, !.deck = None,
                     !.cards = <<>>,
                     !.resp = IF req[p].handler = "dashboardPage"
                              THEN RenderError ELSE NotFound]]
    /\ UNCHANGED <<decksTable, cardsTable, deckSeq, cardSeq, clock, issued, everDecks, studyVars>>

Step(p) ==
    \/ StoreError(p)
    \/ PageStoreError(p)
    \/ dashboardPage(p)
    \/ page_getUserDeck(p)
    \/ page_getDeckCards(p)
    \/ page_selectCards(p)
    \/ createDeckAction(p)
    \/ updateDeckAction(p)
    \/ deleteDeckAction(p)
    \/ createCard_check(p)
    \/ createCard_insert(p)
    \/ updateCard_check(p)
    \/ updateCard_update(p)
    \/ updateCard_getCard(p)
    \/ deleteCard_getCard(p)
    \/ deleteCard_check(p)
    \/ deleteCard_delete(p)

\* Two requests at a time, each authenticated and valid, interleaved by statement
Next ==
    \E p \in Procs :
        \/ Issue(p, Users, FALSE)
        \/ Step(p)

Spec == Init /\ [][Next]_vars

\* One request at a time, from any caller (signed in or not) with any input
NextSeq ==
    \/ Issue("r1", Users \cup {NoUser}, TRUE)
    \/ Step("r1")

SpecSeq == Init /\ [][NextSeq]_vars

\* ------------------------------------------------------------------ study session
\* const currentCard = cards[currentCardIndex]
currentCard(s) == studyCards[s.currentCardIndex + 1]

handleFlipCard(s) == [s EXCEPT !.isFlipped = ~s.isFlipped]

handleNextCard_forgetsLast(s) ==
    IF s.currentCardIndex < Len(studyCards) - 1
    THEN [s EXCEPT !.currentCardIndex = @ + 1, !.isFlipped = FALSE,
                   !.studiedCards = @ \cup {currentCard(s)}]
    ELSE [s EXCEPT !.isStudyComplete = TRUE]

handleNextCard_forgetsLeft(s) ==
    IF s.currentCardIndex < Len(studyCards) - 1
    THEN [s EXCEPT !.currentCardIndex = @ + 1, !.isFlipped = FALSE]
    ELSE [s EXCEPT !.studiedCards = @ \cup {currentCard(s)}, !.isStudyComplete = TRUE]

handleNextCard(s) ==
    IF s.currentCardIndex < Len(studyCards) - 1
    THEN [s EXCEPT !.currentCardIndex = @ + 1, !.isFlipped = FALSE,
                   !.studiedCards = @ \cup {currentCard(s)}]
    ELSE [s EXCEPT !.studiedCards = @ \cup {currentCard(s)}, !.isStudyComplete = TRUE]

handlePreviousCard_keepsFlipped(s) ==
    IF s.currentCardIndex > 0
    THEN [s EXCEPT !.currentCardIndex = @ - 1]
    ELSE s

handlePreviousCard(s) ==
    IF s.currentCardIndex > 0
    THEN [s EXCEPT !.currentCardIndex = @ - 1, !.isFlipped = FALSE]
    ELSE s

handleRestartStudy_keepsStudied(s) ==
    [s EXCEPT !.currentCardIndex = 0, !.isFlipped = FALSE, !.isStudyComplete = FALSE]

handleRestartStudy(s) ==
    [s EXCEPT !.currentCardIndex = 0, !.isFlipped = FALSE, !.studiedCards = {},
              !.isStudyComplete = FALSE]

nextDisabled_never(s) == FALSE

\* the disabled props of the Next and Previous buttons
nextDisabled(s) == ~s.isFlipped
previousDisabled(s) == s.currentCardIndex = 0

\* the clicks so far are flip, next, flip, next, ... from the start: canon counts them
Follows(event) ==
    IF IsSome(canon) /\ event = (IF Val(canon) % 2 = 0 THEN "flip" ELSE "next")
    THEN Some(Val(canon) + 1)
    ELSE None

Click(event, after) ==
    /\ study' = after
    /\ lastEvent' = event
    /\ studyBefore' = study
    /\ canon' = IF event = "restart" THEN Some(0) ELSE Follows(event)
    /\ UNCHANGED <<studyCards, storeVars>>

ClickFlip_always ==
    /\ studyCards # <<>>
    /\ Click("flip", handleFlipCard(study))

\* the card or the Show Back / Show Front button is clicked
ClickFlip ==
    /\ studyCards # <<>>
    /\ ~study.isStudyComplete
    /\ Click("flip", handleFlipCard(study))

\* the Next / Complete button is clicked; a disabled button does nothing
ClickNext ==
    /\ studyCards # <<>>
    /\ ~study.isStudyComplete
    /\ Click("next", IF nextDisabled(study) THEN study ELSE handleNextCard(study))

\* the Previous button is clicked
ClickPrevious ==
    /\ studyCards # <<>>
    /\ ~study.isStudyComplete
    /\ Click("previous",
             IF previousDisabled(study) THEN study ELSE handlePreviousCard(study))

\* Study Again, which only the Study Complete view shows
ClickStudyAgain ==
    /\ studyCards # <<>>
    /\ study.isStudyComplete
    /\ Click("restart", handleRestartStudy(study))

\* the card lists a study page may hand over: distinct ids, at least one
StudyLists ==
    {l \in UNION {[1..n -> 1..MaxStudyCards] : n \in 1..MaxStudyCards} :
        \A i, j \in DOMAIN l : i # j => l[i] # l[j]}

InitStudy ==
    /\ decksTable = {}
    /\ cardsTable = {}
    /\ deckSeq = 0
    /\ cardSeq = 0
    /\ clock = 0
    /\ req = [p \in Procs |-> IdleReq]
    /\ issued = 0
    /\ everDecks = {}
    /\ studyCards \in StudyLists
    /\ study = InitialStudy
    /\ lastEvent = "none"
    /\ studyBefore = InitialStudy
    /\ canon = Some(0)

NextStudy ==
    \/ ClickFlip
    \/ ClickNext
    \/ ClickPrevious
    \/ ClickStudyAgain

SpecStudy == InitStudy /\ [][NextStudy]_vars

\* ------------------------------------------------------------------ what a request saw
Range(f) == {f[i] : i \in DOMAIN f}
IsDone(r) == r.pc = "done"
Rendered(r) == r.handler \in Pages /\ IsDone(r) /\ r.resp.kind = "render"

\* the deck rows and the card rows a request was handed by the services
DecksReturned(r) ==
    IF r.handler \in {"createDeck", "updateDeck"} /\ IsDone(r) /\ r.resp.success
    THEN {r.resp.data}
    ELSE IF r.handler = "dashboardPage" /\ Rendered(r) THEN Range(r.resp.decks)
    ELSE IF Rendered(r) THEN {r.resp.deck}
    ELSE IF IsSome(r.deck) THEN {Val(r.deck)}
    ELSE {}
CardsReturned(r) ==
    (IF r.handler \in {"createCard", "updateCard"} /\ r.resp.success THEN {r.resp.data}
     ELSE IF r.handler \in {"deckPage", "studyPage"} /\ Rendered(r) THEN Range(r.resp.cards)
     ELSE Range(r.cards))
    \cup (IF IsSome(r.cardWithDeck) THEN {Val(r.cardWithDeck)} ELSE {})

\* the deck ids that belong, or belonged, to someone other than u
ForeignDecks(u) == {e[1] : e \in {x \in everDecks : x[2] # u}}

\* the record a request aims at exists and is another user's
TargetForeign(r) ==
    IF r.handler \in {"updateDeck", "deleteDeck"}
    THEN \E d \in decksTable : d.id = Val(r.input.id) /\ d.userId # r.user
    ELSE IF r.handler \in {"createCard", "deckPage", "studyPage"}
    THEN \E d \in decksTable : d.id = Val(r.input.deckId) /\ d.userId # r.user
    ELSE IF r.handler \in {"updateCard", "deleteCard"}
    THEN \E j \in Joined : j[1].id = Val(r.input.id) /\ j[2].userId # r.user
    ELSE FALSE

\* the record a request aims at never existed: the serial has not reached its id
TargetAbsent(r) ==
    IF r.handler \in {"updateDeck", "deleteDeck"} THEN Val(r.input.id) > deckSeq
    ELSE IF r.handler \in {"createCard", "deckPage", "studyPage"}
    THEN Val(r.input.deckId) > deckSeq
    ELSE IF r.handler \in {"updateCard", "deleteCard"} THEN Val(r.input.id) > cardSeq
    ELSE FALSE

\* ------------------------------------------------------------------ C1
\* C1: ownership isolation. No step of a request made with one user's identity
\* changes or deletes a deck that is another user's, changes, deletes or adds a
\* card of such a deck, or hands the request a row of such a deck.
C1_OwnershipIsolation ==
    [][\A p \in Procs :
          Step(p) =>
            LET F == ForeignDecks(req[p].user)
            IN  /\ {d \in decksTable : d.id \in F} = {d \in decksTable' : d.id \in F}
                /\ {c \in cardsTable : c.deckId \in F} = {c \in cardsTable' : c.deckId \in F}
                /\ \A d \in DecksReturned(req'[p]) : d.id \notin F
                /\ \A c \in CardsReturned(req'[p]) : c.deckId \notin F]_vars

\* two requests aimed at another user's deck and card have run, and both records stand
C1_Witness ==
    \E p, q \in Procs :
        /\ IsDone(req[p]) /\ req[p].handler = "deleteDeck" /\ TargetForeign(req[p])
        /\ IsDone(req[q]) /\ req[q].handler = "deleteCard" /\ TargetForeign(req[q])
        /\ req[p].calls > 0 /\ req[q].calls > 0

\* ------------------------------------------------------------------ C2
\* C2: not found and access denied are indistinguishable. Two finished requests of
\* the same handler and caller, one aimed at an id that never existed and one at a
\* record of another user, got the same answer and had the same effects; and on
\* every store each service select and where clause matches the same (nothing)
\* for an id that never existed as for a record of another user.
Outcome(r) == <<r.resp, r.revalidated, r.writes>>

DeckWrites == {"updateDeck", "deleteDeck"}

C4_CascadeDelete ==
    \A p \in Procs :
        (IsDone(req[p]) /\ req[p].handler = "deleteDeck" /\ req[p].resp.success) =>
           LET d == Val(req[p].input.id)
           IN  \A u \in Users :
                  /\ getDeckCards(u, d) = <<>>
                  /\ deckServiceGetDeckCards(u, d) \in {None, Some(<<>>)}
                  /\ \A c \in 1..MaxCards :
                        getCard(u, c) = None \/ Val(getCard(u, c)).deckId # d

\* a deck was deleted together with at least one card of it
C4_Witness ==
    \E p \in Procs :
        /\ IsDone(req[p]) /\ req[p].handler = "deleteDeck" /\ req[p].resp.success
        /\ req[p].writes >= 2

\* ------------------------------------------------------------------ C5
\* C5: study reveal gate. A click on Next while the back is hidden changes nothing
\* (position, studied set, completion flag); a click on Next while the back is
\* shown, before the last card, moves to the next card with its back hidden and
\* adds the card just left to the studied set.
C5_RevealGate ==
    lastEvent = "next" =>
       /\ ~studyBefore.isFlipped => study = studyBefore
       /\ (studyBefore.isFlipped /\ studyBefore.currentCardIndex < Len(studyCards) - 1) =>
             study = [currentCardIndex |-> studyBefore.currentCardIndex + 1,
                      isFlipped |-> FALSE,
                      studiedCards |-> studyBefore.studiedCards
                                         \cup {studyCards[studyBefore.currentCardIndex + 1]},
                      isStudyComplete |-> FALSE]

\* after an advance that went through, Next was clicked again with the back hidden
C5_Witness ==
    /\ lastEvent = "next"
    /\ ~studyBefore.isFlipped
    /\ study.currentCardIndex >= 1
    /\ study.studiedCards # {}

\* ------------------------------------------------------------------ C6
\* C6: study completion. While the clicks since the start (or the last restart) are
\* flip, next, flip, next, ..., after j advances the session shows card j + 1 of the
\* list with cards 1..j studied, and after as many advances as there are cards it
\* is complete with every card studied.
FirstCards(j) == {studyCards[i] : i \in 1..j}

C6_StudyCompletion ==
    IsSome(canon) =>
       LET j == Val(canon) \div 2
       IN  IF Val(canon) % 2 = 1
           THEN /\ study.currentCardIndex = j
                /\ study.isFlipped
                /\ ~study.isStudyComplete
                /\ study.studiedCards = FirstCards(j)
           ELSE IF j < Len(studyCards)
           THEN /\ study.currentCardIndex = j
                /\ ~study.isFlipped
                /\ ~study.isStudyComplete
                /\ study.studiedCards = FirstCards(j)
           ELSE /\ j = Len(studyCards)
                /\ study.isStudyComplete
                /\ study.studiedCards = Range(studyCards)

\* flip, next as many times as a list of three or more cards has cards
C6_Witness ==
    /\ Len(studyCards) >= 3
    /\ canon = Some(2 * Len(studyCards))
    /\ study.isStudyComplete

\* ------------------------------------------------------------------ C7
\* C7: restart resets fully. After Study Again the state is position 0, back
\* hidden, nothing studied, not complete; and handleRestartStudy gives that state
\* from every state the session reaches, active or complete.
C7_RestartResets ==
    /\ lastEvent = "restart" => study = InitialStudy
    /\ handleRestartStudy(study) = InitialStudy

\* Study Again was clicked on a complete session that had studied two or more cards
C7_Witness ==
    /\ lastEvent = "restart"
    /\ studyBefore.isStudyComplete
    /\ Cardinality(studyBefore.studiedCards) >= 2
    /\ studyBefore.currentCardIndex >= 1

\* ------------------------------------------------------------------ C8
\* C8: validation completeness for deck creation. createDeckAction by a signed-in
\* user with an empty name or a name of 256 characters fails with a field error on
\* name and creates no deck; with a name of 255 characters it succeeds and creates
\* the deck.
C8_ValidationCompleteness ==
    \A p \in Procs :
        (IsDone(req[p]) /\ req[p].handler = "createDeck" /\ req[p].user \in Users) =>
           /\ req[p].input.name \in {Some(0), Some(256)} =>
                 /\ ~req[p].resp.success
                 /\ "name" \in req[p].resp.fieldErrors
                 /\ req[p].writes = 0
           /\ (req[p].input.name = Some(255) /\ ~req[p].storeError) =>
                 /\ req[p].resp.success
                 /\ req[p].writes = 1

\* ------------------------------------------------------------------ C9
\* C9: update requires a change. updateDeckAction with neither name nor description,
\* and updateCardAction with neither front nor back, fail validation whatever the
\* valid id, call no service and change no row.
C9_UpdateRequiresChange ==
    \A p \in Procs :
        ( /\ IsDone(req[p])
          /\ req[p].user \in Users
          /\ PositiveInt(req[p].input.id)
          /\ \/ /\ req[p].handler = "updateDeck"
                /\ req[p].input.name = None /\ req[p].input.description = None
             \/ /\ req[p].handler = "updateCard"
                /\ req[p].input.front = None /\ req[p].input.back = None )
        => /\ req[p].resp = Fail(InvalidInput)
           /\ req[p].calls = 0
           /\ req[p].writes = 0

\* ------------------------------------------------------------------ C10
\* C10: handlers fail closed. A server action called with no signed-in user answers
\* success: false, calls no service, revalidates no path and changes no row.
C10_FailClosed ==
    \A p \in Procs :
        (IsDone(req[p]) /\ req[p].handler \in Handlers /\ req[p].user = NoUser) =>
           /\ ~req[p].resp.success
           /\ req[p].calls = 0
           /\ req[p].revalidated = {}
           /\ req[p].writes = 0
           /\ ~req[p].storeError

\* createCardAction was called without a user, with an input its schema accepts,
\* for a deck that exists
C10_Witness ==
    \E p \in Procs :
        /\ IsDone(req[p])
        /\ req[p].handler = "createCard"
        /\ req[p].user = NoUser
        /\ createCardSchema(req[p].input)
        /\ foreignKeyHolds(Val(req[p].input.deckId))

\* ------------------------------------------------------------------ C11
\* C11: createDeckAction called with no signed-in user answers success: false
\* with the error 'Unauthorized'.
C11_UnauthorizedMessage ==
    \A p \in Procs :
        (IsDone(req[p]) /\ req[p].handler = "createDeck" /\ req[p].user = NoUser) =>
           /\ ~req[p].resp.success
           /\ req[p].resp.error = "Unauthorized"

\* ------------------------------------------------------------------ C12
\* C12: no study session over zero cards. When the signed-in caller owns the deck
\* and the deck has no cards, the study page redirects to /decks/{deckId} and
\* does not render StudyInterface.
C12_EmptyDeckRedirects ==
    \A p \in Procs :
        ( /\ IsDone(req[p])
          /\ req[p].handler = "studyPage"
          /\ req[p].user \in Users
          /\ ~req[p].storeError
          /\ ~pageParamInvalid(req[p].input)
          /\ getUserDeck(req[p].user, Val(req[p].input.deckId)) # None
          /\ {c \in cardsTable : c.deckId = Val(req[p].input.deckId)} = {} )
        => req[p].resp = Redirect(DeckPath(Val(req[p].input.deckId)))

\* ------------------------------------------------------------------ C13
\* C13: on every store that creates, updates and deletes by any users lead to,
\* getUserDecks(U) is exactly the decks whose owner is U, each once, the most
\* recently updated first.
C13_UserDecksListing ==
    \A u \in Users :
        LET listed == getUserDecks(u)
        IN  /\ Range(listed) = {d \in decksTable : d.userId = u}
            /\ \A i, j \in DOMAIN listed : i # j => listed[i].id # listed[j].id
            /\ \A i, j \in DOMAIN listed : i < j => listed[i].updatedAt >= listed[j].updatedAt

\* a user has two decks and the one created first was updated last, so it is listed first
C13_Witness ==
    \E u \in Users :
        /\ Len(getUserDecks(u)) = 2
        /\ getUserDecks(u)[1].id < getUserDecks(u)[2].id

\* ------------------------------------------------------------------ C14
\* C14: the card list the deck page and the study page hand on, and the list
\* getDeckCards returns for a deck of the caller, is the deck's cards in creation
\* order, oldest first.
OldestFirst(cards) ==
    \A i, j \in DOMAIN cards : i < j => cards[i].createdAt <= cards[j].createdAt

C14_CardsOldestFirst ==
    /\ \A p \in Procs :
          (Rendered(req[p]) /\ req[p].handler \in {"deckPage", "studyPage"}) =>
             OldestFirst(req[p].resp.cards)
    /\ \A u \in Users : \A d \in decksTable :
          d.userId = u =>
             /\ Range(getDeckCards(u, d.id)) = {c \in cardsTable : c.deckId = d.id}
             /\ OldestFirst(getDeckCards(u, d.id))

\* ------------------------------------------------------------------ C15
\* C15: every read of the services (getUserDeck, getDeckCards of either service,
\* getCard) whose target does not exist or is another user's returns an empty or
\* absent result and raises no error.
C15_ReadsNeverRaise ==
    \A u \in Users :
        /\ \A deckId \in 1..(MaxDecks + 1) :
              (\A d \in decksTable : d.id = deckId => d.userId # u) =>
                 /\ getUserDeck(u, deckId) = None
                 /\ getDeckCards(u, deckId) = <<>>
                 /\ ~deckServiceGetDeckCardsThrows(u, deckId)
        /\ \A cardId \in 1..(MaxCards + 1) :
              (\A j \in Joined : j[1].id = cardId => j[2].userId # u) =>
                 getCard(u, cardId) = None

\* ------------------------------------------------------------------ C16
\* C16: a mutation handler whose target (the deck of update deck, delete deck and
\* create card; the card of update card and delete card) does not exist or is
\* another user's answers with the failure 'not found or access denied', which is
\* not the generic answer to a failing store.
C16_CollapsedDenial ==
    \A p \in Procs :
        ( /\ IsDone(req[p])
          /\ req[p].handler \in Handlers \ {"createDeck"}
          /\ req[p].user \in Users
          /\ Schema(req[p].handler, req[p].input)
          /\ ~req[p].storeError
          /\ TargetAbsent(req[p]) \/ TargetForeign(req[p]) )
        => /\ ~req[p].resp.success
           /\ req[p].resp.error \in {DeckDenied, CardDenied}
           /\ req[p].resp.error # GenericError(req[p].handler)

AffectedDeck(r) ==
    CASE r.handler = "updateDeck" -> Val(r.input.id)
      [] r.handler = "createCard" -> Val(r.input.deckId)
      [] r.handler = "updateCard" -> r.resp.data.deckId
      [] r.handler = "deleteCard" -> Val(r.cardWithDeck).deckId

C18_Invalidation ==
    \A p \in Procs :
        ( /\ IsDone(req[p])
          /\ req[p].handler \in {"updateDeck", "createCard", "updateCard", "deleteCard"}
          /\ req[p].resp.success )
        => {DashboardPath, DeckPath(AffectedDeck(req[p]))} \subseteq req[p].revalidated

C20_OwnerStamped ==
    \A p \in Procs :
        ( /\ IsDone(req[p])
          /\ req[p].handler = "createDeck"
          /\ req[p].resp.success )
        => /\ req[p].resp.data.userId = req[p].user
           /\ <<req[p].resp.data.id, req[p].user>> \in everDecks
           /\ createDeck(req[p].user, Sent(req[p].input), req[p].resp.data.id,
                         req[p].resp.data.updatedAt) = req[p].resp.data

\* a signed-in user created a deck with a payload whose userId names the other user
C20_Witness ==
    \E p \in Procs :
        /\ IsDone(req[p])
        /\ req[p].handler = "createDeck"
        /\ req[p].resp.success
        /\ IsSome(req[p].input.userId)
        /\ Val(req[p].input.userId) # req[p].user
        /\ \E d \in decksTable : d.id = req[p].resp.data.id /\ d.userId = req[p].user

\* ------------------------------------------------------------------ C21
\* C21: a page (dashboard, deck, study) rendered with no signed-in user redirects
\* to /sign-in and reads nothing from the services.
C21_PagesRedirectUnauthenticated ==
    \A p \in Procs :
        (req[p].handler \in Pages /\ req[p].user = NoUser) =>
           /\ IsDone(req[p])
           /\ req[p].resp = Redirect(SignInPath)
           /\ req[p].calls = 0
           /\ req[p].pending = {}
           /\ req[p].deck = None /\ req[p].cards = <<>>

\* the study page of a deck that exists, with cards, was asked for with no user
C21_Witness ==
    \E p \in Procs :
        /\ IsDone(req[p])
        /\ req[p].handler = "studyPage"
        /\ req[p].user = NoUser
        /\ ~pageParamInvalid(req[p].input)
        /\ \E c \in cardsTable : c.deckId = Val(req[p].input.deckId)

\* C22: a deck keeps the id and the owner it was created with, a card keeps its id,
\* its deck and its creation time; no step of any operation changes them, whatever
\* extra fields the payload carries, and an id is never given to a second row
C22_IdentityImmutable ==
    [][/\ \A d \in decksTable : \A e \in decksTable' :
             e.id = d.id => e.userId = d.userId
       /\ \A c \in cardsTable : \A e \in cardsTable' :
             e.id = c.id => (e.deckId = c.deckId /\ e.createdAt = c.createdAt)
       /\ \A e \in decksTable' : (\A d \in decksTable : d.id # e.id) => e.id > deckSeq
       /\ \A e \in cardsTable' : (\A c \in cardsTable : c.id # e.id) => e.id > cardSeq
       /\ Cardinality({d.id : d \in decksTable'}) = Cardinality(decksTable')
       /\ Cardinality({c.id : c \in cardsTable'}) = Cardinality(cardsTable')]_vars

\* an update whose payload named another owner succeeded and the deck kept its owner
C22_Witness ==
    \E p \in Procs :
        /\ IsDone(req[p]) /\ req[p].handler = "updateDeck" /\ req[p].resp.success
        /\ IsSome(req[p].input.userId) /\ Val(req[p].input.userId) # req[p].user
        /\ \E d \in decksTable :
              /\ d.id = Val(req[p].input.id) /\ d.userId = req[p].user
              /\ d.updatedAt = clock

\* C23: createDeckAction and updateDeckAction reject a description longer than 1000
\* characters, so every stored deck's description, when present, is at most 1000 long
C23_DescriptionBounded ==
    /\ \A d \in decksTable : IsSome(d.description) => Val(d.description) <= 1000
    /\ \A p \in Procs :
          (/\ IsDone(req[p]) /\ req[p].handler \in {"createDeck", "updateDeck"}
           /\ IsSome(req[p].input.description) /\ Val(req[p].input.description) > 1000)
          => ~req[p].resp.success

\* C24: study retreat. Previous on position p > 0 gives position p - 1 with the back
\* hidden; on position 0 it changes nothing; the studied set is the same in both cases
C24_Retreat ==
    /\ lastEvent = "previous" =>
          /\ study = IF studyBefore.currentCardIndex > 0
                     THEN [studyBefore EXCEPT !.currentCardIndex = @ - 1,
                                              !.isFlipped = FALSE]
                     ELSE studyBefore
          /\ study.studiedCards = studyBefore.studiedCards
    /\ handlePreviousCard(study).studiedCards = study.studiedCards
    /\ study.currentCardIndex = 0 => handlePreviousCard(study) = study

\* Previous was clicked away from the first card while the back was showing
C24_Witness ==
    /\ lastEvent = "previous"
    /\ studyBefore.currentCardIndex > 0
    /\ studyBefore.isFlipped
    /\ studyBefore.studiedCards # {}
    /\ study.currentCardIndex = studyBefore.currentCardIndex - 1

\* C25: a complete session is terminal for the card clicks. Once isStudyComplete
\* holds, no flip, advance or retreat happens and position, side and studied set
\* stay as they are; the only step that changes the session is Study Again
C25_CompleteIsTerminal ==
    [][study.isStudyComplete =>
          \/ study' = study
          \/ (lastEvent' = "restart" /\ study' = InitialStudy)]_vars

\* a session that wandered (not flip, next, flip, next, ...) and then completed
C25_Witness ==
    /\ study.isStudyComplete
    /\ lastEvent = "next"
    /\ canon = None
    /\ Len(studyCards) >= 2
    /\ study.studiedCards = Range(studyCards)

\* C30: the study-session invariant. In every state reached from the start by flip,
\* advance, retreat and restart over a non-empty list, the position is an index of
\* the list, every card before the position is studied, only cards of the list are
\* studied, and a complete session has studied every card
C30_StudyInvariant ==
    /\ study.currentCardIndex >= 0
    /\ study.currentCardIndex <= Len(studyCards) - 1
    /\ currentCard(study) \in Range(studyCards)
    /\ \A i \in 1..study.currentCardIndex : studyCards[i] \in study.studiedCards
    /\ study.studiedCards \subseteq Range(studyCards)
    /\ study.isStudyComplete => study.studiedCards = Range(studyCards)

\* after advancing twice and retreating twice the session is back on the first
\* card with the cards ahead of it studied
C30_Witness ==
    /\ Len(studyCards) >= 3
    /\ lastEvent = "previous"
    /\ study.currentCardIndex = 0
    /\ Cardinality(study.studiedCards) >= 2
    /\ ~study.isStudyComplete

\* C26: ordering within one mutation request. No repository call is opened and no
\* row is written unless the caller is signed in and the input passed its schema;
\* no path is revalidated before a write of this request has succeeded; an input
\* whose id is zero, negative or not an integer never reaches the store
TargetId(r) ==
    IF r.handler = "createCard" THEN r.input.deckId ELSE r.input.id

C26_RequestOrdering ==
    \A p \in Procs :
        req[p].handler \in Handlers =>
           LET r == req[p]
               reachedStore == r.pc \in Statements \/ r.calls > 0 \/ r.writes > 0
                                  \/ r.storeError
           IN  /\ reachedStore => (r.user \in Users /\ Schema(r.handler, r.input))
               /\ r.revalidated # {} => r.writes >= 1
               /\ (r.handler # "createDeck"
                     /\ TargetId(r) \in {Some(0), Some(-1), NonInteger})
                    => (~reachedStore /\ r.revalidated = {}
                        /\ (IsDone(r) => r.resp = Fail(IF r.user \in Users
                                                       THEN InvalidInput
                                                       ELSE GenericError(r.handler))))

\* the owner of deck 1 asked to delete deck 1.5 and was refused; deck 1 is there
C26_Witness ==
    \E p \in Procs :
        /\ IsDone(req[p]) /\ req[p].handler = "deleteDeck"
        /\ req[p].input.id = NonInteger
        /\ req[p].resp = Fail(InvalidInput)
        /\ \E d \in decksTable : d.id = 1 /\ d.userId = req[p].user

\* C27: failure means no effect. A mutation handler that answered success = false,
\* for whatever reason (not signed in, invalid input, not found or denied, a store
\* error at any of its calls), has written no deck row and no card row
C27_FailureMeansNoEffect ==
    \A p \in Procs :
        (IsDone(req[p]) /\ req[p].handler \in Handlers /\ ~req[p].resp.success)
        => req[p].writes = 0

\* C28: card referential integrity under concurrency. However createCard and
\* deleteDeck requests interleave, every stored card's deckId is the id of a stored
\* deck; a createCard whose deck was deleted between its ownership check and its
\* insert stores no card and answers a failure
C28_CardsReferToDecks ==
    /\ \A c \in cardsTable : \E d \in decksTable : d.id = c.deckId
    /\ \A p \in Procs :
          (/\ IsDone(req[p]) /\ req[p].handler = "createCard" /\ req[p].resp.success)
          => \E e \in everDecks : e[1] = req[p].resp.data.deckId /\ e[2] = req[p].user

\* a deck was deleted after a createCard had found it and before the insert:
\* the insert was refused and no card was stored
C28_Witness ==
    \E p, q \in Procs :
        /\ IsDone(req[p]) /\ req[p].handler = "createCard"
        /\ req[p].calls = 1 /\ req[p].writes = 0 /\ req[p].storeError
        /\ req[p].resp = Fail(GenericError("createCard"))
        /\ IsDone(req[q]) /\ req[q].handler = "deleteDeck" /\ req[q].resp.success
        /\ req[q].input.id = req[p].input.deckId
        /\ \A d \in decksTable : d.id # Val(req[p].input.deckId)
        /\ \A c \in cardsTable : c.deckId # Val(req[p].input.deckId)

\* C29: at most one delete succeeds. Of the deleteDeckAction calls for one deck id,
\* concurrent or one after the other, at most one answers success, and likewise of
\* the deleteCardAction calls for one card id; every other call answers a failure,
\* and a call that answered success has deleted the row
C29_AtMostOneDelete ==
    \A p \in Procs :
        (IsDone(req[p]) /\ req[p].handler \in {"deleteDeck", "deleteCard"}) =>
           /\ req[p].resp.success => req[p].writes >= 1
           /\ \A q \in Procs \ {p} :
                 (/\ IsDone(req[q]) /\ req[q].handler = req[p].handler
                  /\ req[q].input.id = req[p].input.id /\ req[p].resp.success)
                 => /\ ~req[q].resp.success
                    /\ req[q].writes = 0
                    /\ req[q].resp.error \in {DeckDenied, CardDenied,
                                              GenericError(req[q].handler)}

\* two deleteCardAction calls for one card both passed their ownership checks; one
\* deleted the card, the other's DELETE found no row and answered the denial
C29_Witness ==
    \E p, q \in Procs :
        /\ p # q
        /\ IsDone(req[p]) /\ IsDone(req[q])
        /\ req[p].handler = "deleteCard" /\ req[q].handler = "deleteCard"
        /\ req[p].input.id = req[q].input.id
        /\ req[p].resp.success
        /\ req[q].calls = 2 /\ ~req[q].storeError
        /\ req[q].resp = Fail(CardDenied)

====
